---- MODULE Spec2Model ----
(***************************************************************************)
(* Model of the report pipeline of tools/analyze_code.py: main() reads the *)
(* persisted analysis report, queries git, asks the Gemini endpoint for a  *)
(* narrative (trying MODELS in order) and mails the result.                *)
(*                                                                         *)
(* A Python str is a sequence of tokens.  The tokens of a text are         *)
(*   "~~~"   a Markdown fence, three backticks (written with tildes here)  *)
(*   "html"  the word html                                                 *)
(*   " "     one whitespace character                                      *)
(*   "a"     any other character                                           *)
(* and a fixed literal of the source is a single token of its own.         *)
(* Python's None is the one-token sequence None.                           *)
(***************************************************************************)
EXTENDS Integers, Sequences, FiniteSets, TLC

VARIABLES
    pc,                  \* position of main()
    argv,                \* sys.argv
    SENDER_EMAIL,        \* module globals read from the environment
    GEMINI_APP_PASSWORD,
    GEMINI_API_KEY,
    SEND_EMAIL_ENABLED,
    requestsInstalled,   \* whether "import requests" succeeds
    status,              \* locals of main()
    report,
    diff,
    files,
    html_analysis,
    subject,
    m,                   \* index in MODELS of the for loop of ask_gemini_for_analysis
    requests,            \* history: models requested, in order
    inFlight,            \* number of HTTP requests awaiting their response
    responses,           \* history: outcome of each request, in order
    gitCalls,            \* history: git commands run, each with its answer
    console,             \* history: lines printed
    smtpSessions,        \* history: SMTP_SSL sessions opened
    smtpLogins,          \* history: credentials given to server.login
    sent,                \* history: messages handed to server.send_message
    uncaught,            \* exception that left main(), or None
    exitCode             \* process exit code, -1 while running

vars == <<pc, argv, SENDER_EMAIL, GEMINI_APP_PASSWORD, GEMINI_API_KEY,
          SEND_EMAIL_ENABLED, requestsInstalled, status, report, diff, files,
          html_analysis, subject, m, requests, inFlight, responses, gitCalls,
          console, smtpSessions, smtpLogins, sent, uncaught, exitCode>>

----------------------------------------------------------------------------
(* Bounds of the model *)

\* longest text of a Gemini response, in tokens
MaxTextLen == 4
\* longest stdout of a git command, in tokens
MaxOutLen == 3

----------------------------------------------------------------------------
(* Python values *)

None == <<"None">>

\* bool(v) of an Optional[str]
Truthy(v) == v # None /\ v # <<>>

\* a or b
PyOr(a, b) == IF Truthy(a) THEN a ELSE b

SeqsUpTo(A, n) == UNION {[1..k -> A] : k \in 0..n}

IsSpace(c) == c = " "

RECURSIVE LStrip(_)
LStrip(s) == IF s # <<>> /\ IsSpace(Head(s)) THEN LStrip(Tail(s)) ELSE s

RECURSIVE RStrip(_)
RStrip(s) ==
    IF s # <<>> /\ IsSpace(s[Len(s)]) THEN RStrip(SubSeq(s, 1, Len(s) - 1)) ELSE s

\* str.strip()
Strip(s) == RStrip(LStrip(s))

\* str.replace(pat, ""): the non-overlapping occurrences of pat, left to right
RECURSIVE Remove(_, _)
Remove(s, pat) ==
    IF Len(s) < Len(pat) THEN s
    ELSE IF SubSeq(s, 1, Len(pat)) = pat
         THEN Remove(SubSeq(s, Len(pat) + 1, Len(s)), pat)
         ELSE <<Head(s)>> \o Remove(Tail(s), pat)

\* [f for f in lines if f.strip()]
NonBlank(lines) == SelectSeq(lines, LAMBDA f : Strip(f) # <<>>)

----------------------------------------------------------------------------
(* Literals of the source *)

MODELS == <<"gemini-2.5-flash", "gemini-2.5-flash-lite", "gemini-2.0-flash">>

NoReportText == <<"Warning: Aucun rapport d'analyse trouve (tools/.last_analysis.log).">>
ReportErrorText(e) == <<"Warning: Erreur lecture rapport : ", e>>
NoChangeText == <<"Aucun changement detecte.">>
DiffErrorText(e) == <<"Warning: Erreur git diff : ", e>>
NoKeyHtml == <<"<p style='color: orange;'>Warning: GEMINI_API_KEY manquante -> IA desactivee.</p>">>
EmptyAnswerHtml == <<"<p>Warning: Reponse vide de l'IA.</p>">>
ModelsKoHtml == <<"<p style='color: red;'>Erreur: Modeles Gemini KO. Verifie ta cle sur AI Studio.</p>">>
SuccessSubject == <<"Success: Smart CV Generator - Code valide">>
FailureSubject == <<"Failure: Smart CV Generator - Erreurs detectees">>

----------------------------------------------------------------------------
(* What the world can answer *)

\* subprocess.run: raises (git cannot be started) or captures stdout;
\* check=False, so a failing git command answers with whatever stdout it wrote
Ran(out) == [raised |-> "none", stdout |-> out]
Raised(e) == [raised |-> e, stdout |-> <<>>]

\* tools/.last_analysis.log
ReportFile(exists, readable, content) ==
    [exists |-> exists, readable |-> readable, content |-> content]

\* requests.post: raises, or answers with a status; a 2xx answer has a body that
\* response.json() either rejects ("invalid") or parses into a document
\*   "no_candidate"  a document on which the lookups of lines 147-152 raise,
\*                   such as {"candidates": []}
\*   "no_text"       a document without candidates, content, parts or text
\*   "text"          a document with candidates[0].content.parts[0].text
PostRaised(e) == [exc |-> e, status |-> 0, json |-> "none", text |-> <<>>]
HttpStatus(code) == [exc |-> "none", status |-> code, json |-> "none", text |-> <<>>]
HttpOk(json, text) == [exc |-> "none", status |-> 200, json |-> json, text |-> text]

TextTokens == {"~~~", "html", " ", "a"}
OutTokens == {" ", "a"}

AllTexts == SeqsUpTo(TextTokens, MaxTextLen)
AllOuts == SeqsUpTo(OutTokens, MaxOutLen)

AllGeminiOutcomes ==
    {PostRaised("ConnectionError"), PostRaised("Timeout"),
     HttpStatus(404), HttpStatus(429), HttpStatus(500),
     HttpOk("invalid", <<>>), HttpOk("no_candidate", <<>>), HttpOk("no_text", <<>>)}
    \cup {HttpOk("text", t) : t \in AllTexts}

----------------------------------------------------------------------------
(* Module level, lines 36-44: the state when main() is called.             *)
(* sc bounds the environments and the answers of the world.               *)

\* mutant: line 42 without the password
MailEnabledSenderOnly(sender, password) == Truthy(sender)

\* line 42
MailEnabled(sender, password) == Truthy(sender) /\ Truthy(password)

InitOver(sc) ==
    /\ pc = "main"
    /\ argv \in sc.argvs
    /\ SENDER_EMAIL \in sc.senders
    /\ GEMINI_APP_PASSWORD \in sc.passwords
    /\ GEMINI_API_KEY \in sc.keys
    /\ SEND_EMAIL_ENABLED = MailEnabled(SENDER_EMAIL, GEMINI_APP_PASSWORD)
    /\ requestsInstalled \in sc.installs
    /\ console = IF SEND_EMAIL_ENABLED THEN <<>>
                 ELSE << <<"Warning: E-mail desactive (SENDER_EMAIL ou GEMINI_APP_PASSWORD manquants).">> >>
    /\ status = "" /\ report = None /\ diff = None /\ files = <<>>
    /\ html_analysis = None /\ subject = None
    /\ m = 0 /\ requests = <<>> /\ inFlight = 0 /\ responses = <<>>
    /\ gitCalls = <<>>
    /\ smtpSessions = 0 /\ smtpLogins = <<>> /\ sent = <<>>
    /\ uncaught = "none" /\ exitCode = -1

\* an exception leaves main(): the interpreter prints it and exits with 1
Crash(e) ==
    /\ pc' = "crashed"
    /\ uncaught' = e
    /\ exitCode' = 1

----------------------------------------------------------------------------
(* main(), lines 199-201 *)

MainStart ==
    /\ pc = "main"
    /\ status' = IF Len(argv) > 1 THEN argv[2] ELSE "success"
    /\ console' = Append(console,
                    <<"Preparation du rapport", IF Len(argv) > 2 THEN argv[3] ELSE "manual">>)
    /\ pc' = "read_analysis_report"
    /\ UNCHANGED <<argv, SENDER_EMAIL, GEMINI_APP_PASSWORD, GEMINI_API_KEY,
                   SEND_EMAIL_ENABLED, requestsInstalled, report, diff, files,
                   html_analysis, subject, m, requests, inFlight, responses,
                   gitCalls, smtpSessions, smtpLogins, sent, uncaught, exitCode>>

(* read_analysis_report, lines 65-74 *)

ReadReportResult(f) ==
    IF ~f.exists THEN NoReportText
    ELSE IF ~f.readable THEN ReportErrorText("OSError")
    ELSE f.content

ReadAnalysisReport(sc) ==
    /\ pc = "read_analysis_report"
    /\ \E f \in sc.reports : report' = ReadReportResult(f)
    /\ pc' = "get_git_diff"
    /\ UNCHANGED <<argv, SENDER_EMAIL, GEMINI_APP_PASSWORD, GEMINI_API_KEY,
                   SEND_EMAIL_ENABLED, requestsInstalled, status, diff, files,
                   html_analysis, subject, m, requests, inFlight, responses,
                   gitCalls, console, smtpSessions, smtpLogins, sent, uncaught,
                   exitCode>>

(* get_git_diff, lines 77-92 *)

\* mutant: line 90 without its strip()
GitDiffResultUnstripped(staged, head) ==
    IF staged.raised # "none" THEN DiffErrorText(staged.raised)
    ELSE IF Strip(staged.stdout) # <<>> THEN staged.stdout
    ELSE IF head.raised # "none" THEN DiffErrorText(head.raised)
    ELSE PyOr(head.stdout, NoChangeText)

\* the value returned, given what the two git commands would answer
GitDiffResult(staged, head) ==
    IF staged.raised # "none" THEN DiffErrorText(staged.raised)
    ELSE IF Strip(staged.stdout) # <<>> THEN staged.stdout
    ELSE IF head.raised # "none" THEN DiffErrorText(head.raised)
    ELSE PyOr(Strip(head.stdout), NoChangeText)

\* one subprocess.run(["git", ...]) and what it answered
GitCall(cmd, o) == [cmd |-> cmd, out |-> o]

\* the git commands run on the way: line 86 is reached only past line 84
GitDiffCalls(staged, head) ==
    IF staged.raised = "none" /\ Strip(staged.stdout) = <<>>
    THEN <<GitCall("diff --cached", staged), GitCall("diff HEAD~1", head)>>
    ELSE <<GitCall("diff --cached", staged)>>

GetGitDiff(sc) ==
    /\ pc = "get_git_diff"
    /\ \E staged \in sc.diffOuts, head \in sc.diffOuts :
          /\ diff' = GitDiffResult(staged, head)
          /\ gitCalls' = gitCalls \o GitDiffCalls(staged, head)
    /\ pc' = "get_changed_files"
    /\ UNCHANGED <<argv, SENDER_EMAIL, GEMINI_APP_PASSWORD, GEMINI_API_KEY,
                   SEND_EMAIL_ENABLED, requestsInstalled, status, report, files,
                   html_analysis, subject, m, requests, inFlight, responses,
                   console, smtpSessions, smtpLogins, sent, uncaught, exitCode>>

(* get_changed_files, lines 95-104; stdout is given as its splitlines() *)

ChangedFilesResult(o) == IF o.raised # "none" THEN <<>> ELSE NonBlank(o.stdout)

GetChangedFiles(sc) ==
    /\ pc = "get_changed_files"
    /\ \E o \in sc.fileOuts :
          /\ files' = ChangedFilesResult(o)
          /\ gitCalls' = Append(gitCalls, GitCall("diff --name-only HEAD~1", o))
    /\ pc' = "ask_gemini_for_analysis"
    /\ UNCHANGED <<argv, SENDER_EMAIL, GEMINI_APP_PASSWORD, GEMINI_API_KEY,
                   SEND_EMAIL_ENABLED, requestsInstalled, status, report, diff,
                   html_analysis, subject, m, requests, inFlight, responses,
                   console, smtpSessions, smtpLogins, sent, uncaught, exitCode>>

----------------------------------------------------------------------------
(* ask_gemini_for_analysis, lines 107-166 *)

\* mutant: line 153 without its second replace
StripFencesOpenerOnly(text) == Strip(Remove(text, <<"~~~", "html">>))

\* line 153: text.replace(fence html, "").replace(fence, "").strip()
StripFences(text) == Strip(Remove(Remove(text, <<"~~~", "html">>), <<"~~~">>))

\* lines 147-152: the chained .get() lookups, "" when a key is missing
ParsedText(r) == IF r.json = "text" THEN r.text ELSE <<>>

\* mutant: an empty answer is sent to the except Exception clause
VerdictEmptyIsFailure(r) ==
    IF r.exc # "none" THEN "warn"
    ELSE IF r.status >= 400 THEN (IF r.status = 404 THEN "next404" ELSE "reraise")
    ELSE IF r.json \in {"invalid", "no_candidate"} THEN "warn"
    ELSE IF StripFences(ParsedText(r)) = <<>> THEN "warn"
    ELSE "return"

\* lines 144-164: which way one answer of the endpoint sends the loop
\*   "return"   lines 153-154
\*   "next404"  lines 157-159, the except HTTPError clause, status 404
\*   "reraise"  lines 160-161, the except HTTPError clause, any other status
\*   "warn"     lines 162-164, the except Exception clause
Verdict(r) ==
    IF r.exc # "none" THEN "warn"
    ELSE IF r.status >= 400 THEN (IF r.status = 404 THEN "next404" ELSE "reraise")
    ELSE IF r.json \in {"invalid", "no_candidate"} THEN "warn"
    ELSE "return"

\* line 154
AnswerHtml(r) == PyOr(StripFences(ParsedText(r)), EmptyAnswerHtml)

\* mutant: line 109 as "GEMINI_API_KEY is None"
KeyMissingNoneOnly(key) == key = None

\* line 109: not GEMINI_API_KEY
KeyMissing(key) == ~Truthy(key)

\* lines 109-110, and the entry of the for loop
AskGeminiEnter ==
    /\ pc = "ask_gemini_for_analysis"
    /\ IF KeyMissing(GEMINI_API_KEY)
       THEN /\ html_analysis' = NoKeyHtml
            /\ pc' = "subject"
            /\ m' = m
       ELSE /\ m' = 1
            /\ pc' = "for_model"
            /\ html_analysis' = html_analysis
    /\ UNCHANGED <<argv, SENDER_EMAIL, GEMINI_APP_PASSWORD, GEMINI_API_KEY,
                   SEND_EMAIL_ENABLED, requestsInstalled, status, report, diff,
                   files, subject, requests, inFlight, responses, gitCalls,
                   console, smtpSessions, smtpLogins, sent, uncaught, exitCode>>

\* lines 118 and 166: the list is exhausted
LoopExhausted ==
    /\ pc = "for_model"
    /\ m > Len(MODELS)
    /\ html_analysis' = ModelsKoHtml
    /\ pc' = "subject"
    /\ UNCHANGED <<argv, SENDER_EMAIL, GEMINI_APP_PASSWORD, GEMINI_API_KEY,
                   SEND_EMAIL_ENABLED, requestsInstalled, status, report, diff,
                   files, subject, m, requests, inFlight, responses, gitCalls,
                   console, smtpSessions, smtpLogins, sent, uncaught, exitCode>>

\* lines 120 and 156: "import requests" raises ImportError and leaves the local
\* name requests unbound; matching the exception against the first except
\* clause evaluates requests.exceptions.HTTPError, which raises
\* UnboundLocalError out of the function
ImportFails ==
    /\ pc = "for_model"
    /\ m <= Len(MODELS)
    /\ ~requestsInstalled
    /\ Crash("UnboundLocalError")
    /\ UNCHANGED <<argv, SENDER_EMAIL, GEMINI_APP_PASSWORD, GEMINI_API_KEY,
                   SEND_EMAIL_ENABLED, requestsInstalled, status, report, diff,
                   files, html_analysis, subject, m, requests, inFlight,
                   responses, gitCalls, console, smtpSessions, smtpLogins, sent>>

\* lines 120-144: requests.post is called and blocks
PostRequest ==
    /\ pc = "for_model"
    /\ m <= Len(MODELS)
    /\ requestsInstalled
    /\ requests' = Append(requests, MODELS[m])
    /\ inFlight' = inFlight + 1
    /\ pc' = "post"
    /\ UNCHANGED <<argv, SENDER_EMAIL, GEMINI_APP_PASSWORD, GEMINI_API_KEY,
                   SEND_EMAIL_ENABLED, requestsInstalled, status, report, diff,
                   files, html_analysis, subject, m, responses, gitCalls,
                   console, smtpSessions, smtpLogins, sent, uncaught, exitCode>>

\* lines 144-164: requests.post returns or raises, and the rest of the try
\* statement runs
HandleResponse(sc) ==
    /\ pc = "post"
    /\ \E r \in sc.geminiOutcomes :
          /\ responses' = Append(responses, r)
          /\ inFlight' = inFlight - 1
          /\ CASE Verdict(r) = "return" ->
                    /\ html_analysis' = AnswerHtml(r)
                    /\ pc' = "subject"
                    /\ UNCHANGED <<m, console, uncaught, exitCode>>
               [] Verdict(r) = "next404" ->
                    /\ console' = Append(console, <<"Warning: Modele non trouve", MODELS[m]>>)
                    /\ m' = m + 1
                    /\ pc' = "for_model"
                    /\ UNCHANGED <<html_analysis, uncaught, exitCode>>
               [] Verdict(r) = "warn" ->
                    /\ console' = Append(console, <<"Warning: Erreur avec", MODELS[m]>>)
                    /\ m' = m + 1
                    /\ pc' = "for_model"
                    /\ UNCHANGED <<html_analysis, uncaught, exitCode>>
               [] Verdict(r) = "reraise" ->
                    /\ Crash("HTTPError")
                    /\ UNCHANGED <<html_analysis, m, console>>
    /\ UNCHANGED <<argv, SENDER_EMAIL, GEMINI_APP_PASSWORD, GEMINI_API_KEY,
                   SEND_EMAIL_ENABLED, requestsInstalled, status, report, diff,
                   files, subject, requests, gitCalls, smtpSessions, smtpLogins,
                   sent>>

----------------------------------------------------------------------------
(* main(), lines 208-212 *)

\* mutant: lines 208-212 with the two subjects swapped
SubjectForSwapped(st) == IF st = "success" THEN FailureSubject ELSE SuccessSubject

SubjectFor(st) == IF st = "success" THEN SuccessSubject ELSE FailureSubject

BuildSubject ==
    /\ pc = "subject"
    /\ subject' = SubjectFor(status)
    /\ pc' = "send_email"
    /\ UNCHANGED <<argv, SENDER_EMAIL, GEMINI_APP_PASSWORD, GEMINI_API_KEY,
                   SEND_EMAIL_ENABLED, requestsInstalled, status, report, diff,
                   files, html_analysis, m, requests, inFlight, responses,
                   gitCalls, console, smtpSessions, smtpLogins, sent, uncaught,
                   exitCode>>

(* get_git_user_email, lines 51-62 *)

GitUserEmail(o) ==
    IF o.raised # "none" THEN None
    ELSE IF Strip(o.stdout) # <<>> THEN Strip(o.stdout) ELSE None

(* send_email, lines 169-191, and the return of main() *)

\* mutant: line 175 with its operands swapped
RecipientSenderFirst(gitEmail, sender) == PyOr(sender, gitEmail)

\* line 175
Recipient(gitEmail, sender) == PyOr(gitEmail, sender)

\* lines 180-183
Message(subj, body, sender, recipient) ==
    [Subject |-> subj, From |-> sender, To |-> recipient, body |-> body,
     subtype |-> "html"]

\* the SMTP exchange of lines 186-188 can fail at each of its three calls:
\*   "connect_error"  SMTP_SSL(...) raises, no session
\*   "auth_error"     server.login raises
\*   "send_error"     server.send_message raises
SmtpOutcomes == {"ok", "connect_error", "auth_error", "send_error"}

SendEmail(sc) ==
    /\ pc = "send_email"
    /\ IF ~SEND_EMAIL_ENABLED
       THEN /\ console' = Append(console, <<"Warning: E-mail desactive.">>)
            /\ UNCHANGED <<gitCalls, smtpSessions, smtpLogins, sent>>
       ELSE \E o \in sc.emailOuts, smtp \in sc.smtpOutcomes :
              LET recipient == Recipient(GitUserEmail(o), SENDER_EMAIL)
                  printed == IF o.raised # "none"
                             THEN Append(console, <<"Warning: Impossible de lire git config user.email">>)
                             ELSE console
              IN  /\ gitCalls' = Append(gitCalls, GitCall("config user.email", o))
                  /\ IF ~Truthy(recipient)
                     THEN /\ console' = Append(printed, <<"Warning: Aucun destinataire">>)
                          /\ UNCHANGED <<smtpSessions, smtpLogins, sent>>
                     ELSE /\ smtpSessions' = IF smtp = "connect_error" THEN smtpSessions
                                             ELSE smtpSessions + 1
                          /\ smtpLogins' = IF smtp = "connect_error" THEN smtpLogins
                                           ELSE Append(smtpLogins, <<SENDER_EMAIL, GEMINI_APP_PASSWORD>>)
                          /\ sent' = IF smtp = "ok"
                                     THEN Append(sent, Message(subject, html_analysis,
                                                               SENDER_EMAIL, recipient))
                                     ELSE sent
                          /\ console' = IF smtp = "ok"
                                        THEN Append(printed, <<"Success: E-mail envoye", recipient>>)
                                        ELSE Append(printed, <<"Warning: Echec envoi e-mail", smtp>>)
    /\ pc' = "done"
    /\ exitCode' = 0
    /\ UNCHANGED <<argv, SENDER_EMAIL, GEMINI_APP_PASSWORD, GEMINI_API_KEY,
                   SEND_EMAIL_ENABLED, requestsInstalled, status, report, diff,
                   files, html_analysis, subject, m, requests, inFlight,
                   responses, uncaught>>

----------------------------------------------------------------------------
(* The program *)

NextOver(sc) ==
    \/ MainStart
    \/ ReadAnalysisReport(sc)
    \/ GetGitDiff(sc)
    \/ GetChangedFiles(sc)
    \/ AskGeminiEnter
    \/ LoopExhausted
    \/ ImportFails
    \/ PostRequest
    \/ HandleResponse(sc)
    \/ BuildSubject
    \/ SendEmail(sc)

\* Environments and answers every specification draws from
Script == "send_report.py"
Unset == {None, <<>>}
GitFault == Raised("FileNotFoundError")
AReport == ReportFile(TRUE, TRUE, <<"a">>)

\* main() under every environment and every kind of fault at every stage,
\* with one text per answer
PipelineScope ==
    [argvs |-> {<<Script>>, <<Script, "success">>, <<Script, "failure">>,
                <<Script, "erreur", "pre-push">>},
     senders |-> Unset \cup {<<"sender@x">>},
     passwords |-> Unset \cup {<<"secret">>},
     keys |-> Unset \cup {<<"key">>},
     installs |-> BOOLEAN,
     reports |-> {ReportFile(FALSE, FALSE, <<>>), ReportFile(TRUE, FALSE, <<>>), AReport},
     diffOuts |-> {GitFault, Ran(<<>>), Ran(<<"a">>)},
     fileOuts |-> {GitFault, Ran(<<>>), Ran(<< <<"a">>, <<" ">> >>)},
     geminiOutcomes |-> {HttpStatus(404), HttpStatus(500), PostRaised("Timeout"),
                         HttpOk("invalid", <<>>), HttpOk("text", <<>>),
                         HttpOk("text", <<"a">>)},
     emailOuts |-> {GitFault, Ran(<<>>), Ran(<<"a", " ">>)},
     smtpOutcomes |-> SmtpOutcomes]

\* main() with every answer of the Gemini endpoint, texts up to MaxTextLen
NarrativeScope ==
    [argvs |-> {<<Script>>, <<Script, "failure">>},
     senders |-> {<<"sender@x">>},
     passwords |-> {None, <<"secret">>},
     keys |-> Unset \cup {<<"key">>},
     installs |-> BOOLEAN,
     reports |-> {AReport},
     diffOuts |-> {Ran(<<"a">>)},
     fileOuts |-> {Ran(<< <<"a">> >>)},
     geminiOutcomes |-> AllGeminiOutcomes,
     emailOuts |-> {Ran(<<"a">>)},
     smtpOutcomes |-> {"ok"}]

\* main() with every answer of git, stdout up to MaxOutLen
GitScope ==
    [argvs |-> {<<Script>>, <<Script, "failure">>},
     senders |-> Unset \cup {<<"sender@x">>},
     passwords |-> {None, <<"secret">>},
     keys |-> {None, <<"key">>},
     installs |-> BOOLEAN,
     reports |-> {AReport},
     diffOuts |-> {GitFault} \cup {Ran(o) : o \in AllOuts},
     fileOuts |-> {Ran(<< <<"a">> >>)},
     geminiOutcomes |-> {HttpStatus(404), HttpOk("text", <<"a">>)},
     emailOuts |-> {GitFault} \cup {Ran(o) : o \in AllOuts},
     smtpOutcomes |-> {"ok", "auth_error"}]

Init == InitOver(PipelineScope)
Next == NextOver(PipelineScope)
Spec == Init /\ [][Next]_vars

InitNarrative == InitOver(NarrativeScope)
NextNarrative == NextOver(NarrativeScope)
SpecNarrative == InitNarrative /\ [][NextNarrative]_vars

InitGit == InitOver(GitScope)
NextGit == NextOver(GitScope)
SpecGit == InitGit /\ [][NextGit]_vars

----------------------------------------------------------------------------
(* Vocabulary of the properties, stated on the raw answers of the world *)

\* the answer of the endpoint is a failure of the candidate
HttpError(r) == r.exc = "none" /\ r.status >= 400
Failure(r) ==
    \/ r.exc # "none"
    \/ HttpError(r)
    \/ (r.exc = "none" /\ r.status = 200 /\ r.json \in {"invalid", "no_candidate"})

\* the answer is a 2xx whose body parses down to a text field (or its default)
Parsed2xx(r) == r.exc = "none" /\ r.status = 200 /\ r.json \in {"no_text", "text"}

\* the console shows the warning of the except Exception clause for a model
Warned(model) == \E k \in 1..Len(console) : console[k] = <<"Warning: Erreur avec", model>>

\* s holds nothing but whitespace
Blank(s) == \A i \in 1..Len(s) : s[i] = " "

\* t is s without its leading and trailing whitespace
IsTrimOf(t, s) ==
    /\ \E i \in 0..Len(s) :
          /\ i + Len(t) <= Len(s)
          /\ SubSeq(s, i + 1, i + Len(t)) = t
          /\ \A k \in 1..Len(s) : (k <= i \/ k > i + Len(t)) => s[k] = " "
    /\ t = <<>> \/ (t[1] # " " /\ t[Len(t)] # " ")

\* t holds nothing but fences, the html of a fence opener, and whitespace
OnlyFences(t) ==
    \A i \in 1..Len(t) :
        \/ t[i] \in {" ", "~~~"}
        \/ (t[i] = "html" /\ i > 1 /\ t[i - 1] = "~~~")

NoFence(t) == \A i \in 1..Len(t) : t[i] # "~~~"

\* the tokens of t that are neither fence, html nor whitespace
Content(t) == SelectSeq(t, LAMBDA c : c \notin {"~~~", "html", " "})

Returned == pc \in {"subject", "send_email", "done"}

----------------------------------------------------------------------------
(* C1 *)

\* C1: in ask_gemini_for_analysis with a credential configured, every failure
\* of a candidate other than an HTTP 404 (network fault, timeout, malformed
\* response, HTTP error with another status) logs a warning and moves the loop
\* to the next candidate; it is never raised out of the function.
C1_OtherFailuresFallBack ==
    \A i \in 1..Len(responses) :
        (Failure(responses[i]) /\ responses[i].status # 404) =>
            /\ uncaught = "none"
            /\ Warned(MODELS[i])
            /\ m > i

\* What the code does hold to: the failures that are not HTTP errors fall back.
C1_NonHttpFailuresFallBack ==
    \A i \in 1..Len(responses) :
        (Failure(responses[i]) /\ ~HttpError(responses[i])) =>
            /\ Warned(MODELS[i])
            /\ m > i

----------------------------------------------------------------------------
(* C2 *)

----------------------------------------------------------------------------
(* C3 *)

FirstTwo404 ==
    /\ Len(responses) = 3
    /\ HttpError(responses[1]) /\ responses[1].status = 404
    /\ HttpError(responses[2]) /\ responses[2].status = 404
    /\ Parsed2xx(responses[3]) /\ responses[3].json = "text"

----------------------------------------------------------------------------
(* C4 *)

KeyAbsent == GEMINI_API_KEY = None \/ GEMINI_API_KEY = <<>>

\* C4: without GEMINI_API_KEY (unset or empty) ask_gemini_for_analysis issues
\* no request and returns the degraded-mode placeholder, whatever the report,
\* the diff and the changed files, and main() goes on to send_email.
C4_NoKeyNoRequest ==
    KeyAbsent =>
        /\ requests = <<>> /\ inFlight = 0 /\ responses = <<>>
        /\ pc \notin {"for_model", "post", "crashed"}
        /\ Returned => html_analysis = NoKeyHtml

C4_Witness ==
    /\ GEMINI_API_KEY = <<>>
    /\ pc = "send_email"
    /\ html_analysis = NoKeyHtml
    /\ report = NoReportText
    /\ diff = NoChangeText
    /\ requests = <<>>

----------------------------------------------------------------------------
(* C5 *)

\* C5: whatever faults the stages of main() meet (report missing or
\* unreadable, git failing, any answer of the endpoint, mail configuration
\* missing, SMTP fault), no exception leaves main() and the exit code stays 0.
C5_NoFaultStopsTheRun ==
    requestsInstalled => (uncaught = "none" /\ exitCode # 1)

----------------------------------------------------------------------------
(* C6 *)

Absent(v) == v = None \/ v = <<>>

\* C6: when the sender address or the mail password is unset or empty at
\* process start, send_email does nothing: no SMTP session, no login, no
\* message, no exception, and the run ends with exit code 0; so a run that
\* opened an SMTP session had both.
C6_NoCredentialsNoMail ==
    /\ (Absent(SENDER_EMAIL) \/ Absent(GEMINI_APP_PASSWORD)) =>
          /\ smtpSessions = 0 /\ smtpLogins = <<>> /\ sent = <<>>
          /\ \A c \in 1..Len(gitCalls) : gitCalls[c].cmd # "config user.email"
          /\ subject # None => uncaught = "none"
          /\ pc = "done" => exitCode = 0
    /\ smtpSessions > 0 => (~Absent(SENDER_EMAIL) /\ ~Absent(GEMINI_APP_PASSWORD))

C6_Witness ==
    /\ pc = "done"
    /\ SENDER_EMAIL = <<"sender@x">>
    /\ GEMINI_APP_PASSWORD = <<>>
    /\ console[Len(console)] = <<"Warning: E-mail desactive.">>
    /\ smtpSessions = 0
    /\ sent = <<>>

----------------------------------------------------------------------------
(* C7 *)

\* C7: every message send_email sends goes to the committer email that
\* git config user.email printed, when it printed one, and to the sender
\* address otherwise; its From is the sender address; and the send is given
\* up for want of a recipient only when there is neither.
C7_RecipientResolution ==
    /\ Len(sent) <= 1
    /\ \A i \in 1..Len(sent) : \A c \in 1..Len(gitCalls) :
          gitCalls[c].cmd = "config user.email" =>
              LET o == gitCalls[c].out IN
              /\ sent[i].From = SENDER_EMAIL
              /\ IF o.raised = "none" /\ ~Blank(o.stdout)
                 THEN IsTrimOf(sent[i].To, o.stdout) /\ sent[i].To # <<>>
                 ELSE sent[i].To = SENDER_EMAIL
    /\ sent # <<>> => \E c \in 1..Len(gitCalls) : gitCalls[c].cmd = "config user.email"
    /\ (\E k \in 1..Len(console) : console[k] = <<"Warning: Aucun destinataire">>) =>
          /\ Absent(SENDER_EMAIL)
          /\ \A c \in 1..Len(gitCalls) :
                gitCalls[c].cmd = "config user.email" =>
                    (gitCalls[c].out.raised # "none" \/ Blank(gitCalls[c].out.stdout))

C7_Witness ==
    /\ Len(sent) = 1
    /\ gitCalls[Len(gitCalls)] = GitCall("config user.email", Ran(<<"a", " ">>))
    /\ sent[1].To = <<"a">>
    /\ sent[1].From = <<"sender@x">>

----------------------------------------------------------------------------
(* C8 *)

\* the second git diff was run
HeadAsked == Len(gitCalls) >= 2 /\ gitCalls[2].cmd = "diff HEAD~1"

\* C8 as stated, a diff being non-empty when it holds more than whitespace:
\* get_git_diff returns the staged diff when it is non-empty, otherwise the
\* diff against HEAD~1 when that is non-empty, otherwise the no-changes
\* marker; the second diff is run only when the staged diff is empty; a fault
\* of either command yields an explanatory text.
C8_DiffPreference ==
    diff # None =>
        LET st == gitCalls[1].out IN
        /\ gitCalls[1].cmd = "diff --cached"
        /\ (st.raised = "none" /\ ~Blank(st.stdout)) => diff = st.stdout
        /\ HeadAsked => (st.raised = "none" /\ Blank(st.stdout))
        /\ st.raised # "none" => diff = DiffErrorText(st.raised)
        /\ HeadAsked =>
              LET hd == gitCalls[2].out IN
              /\ (hd.raised = "none" /\ ~Blank(hd.stdout)) => diff = hd.stdout
              /\ (hd.raised = "none" /\ Blank(hd.stdout)) => diff = NoChangeText
              /\ hd.raised # "none" => diff = DiffErrorText(hd.raised)

\* C8 as amended: get_git_diff returns the staged diff as git printed it when
\* it holds more than whitespace; otherwise the diff against HEAD~1 without
\* its leading and trailing whitespace when that holds more than whitespace;
\* otherwise the no-changes marker; the second diff is run exactly when the
\* staged diff is empty or whitespace; a fault of either command yields an
\* explanatory text and nothing is raised.
C8_DiffPreferenceTrimmed ==
    diff # None =>
        LET st == gitCalls[1].out IN
        /\ gitCalls[1].cmd = "diff --cached"
        /\ (st.raised = "none" /\ ~Blank(st.stdout)) => diff = st.stdout
        /\ HeadAsked <=> (st.raised = "none" /\ Blank(st.stdout))
        /\ st.raised # "none" => diff = DiffErrorText(st.raised)
        /\ HeadAsked =>
              LET hd == gitCalls[2].out IN
              /\ (hd.raised = "none" /\ ~Blank(hd.stdout)) =>
                    (IsTrimOf(diff, hd.stdout) /\ diff # <<>>)
              /\ (hd.raised = "none" /\ Blank(hd.stdout)) => diff = NoChangeText
              /\ hd.raised # "none" => diff = DiffErrorText(hd.raised)
        /\ pc = "get_changed_files" => uncaught = "none"

C8_Witness ==
    /\ pc = "get_changed_files"
    /\ HeadAsked
    /\ gitCalls[1].out = Ran(<<" ">>)
    /\ gitCalls[2].out = Ran(<<"a", " ">>)
    /\ diff = <<"a">>

----------------------------------------------------------------------------
(* C9 *)

\* C9: the subject main() builds is the "validated" subject exactly when the
\* outcome it was given is success and the "errors detected" subject when it
\* is failure; a message that was sent never carries the "validated" subject
\* of a run that was given another outcome.
C9_SubjectFollowsOutcome ==
    /\ subject # None =>
          /\ subject \in {SuccessSubject, FailureSubject}
          /\ subject = SuccessSubject <=> status = "success"
          /\ Len(argv) > 1 => (subject = SuccessSubject <=> argv[2] = "success")
          /\ (Len(argv) > 1 /\ argv[2] = "failure") => subject = FailureSubject
    /\ \A i \in 1..Len(sent) :
          /\ sent[i].Subject = subject
          /\ (Len(argv) > 1 /\ argv[2] # "success") => sent[i].Subject = FailureSubject

C9_Witness ==
    /\ Len(argv) > 1
    /\ argv[2] = "failure"
    /\ Len(sent) = 1
    /\ sent[1].Subject = FailureSubject

----------------------------------------------------------------------------
(* C10 *)

\* What the code does hold to: at most one request per candidate, in list
\* order, one at a time.
C10_RequestDiscipline ==
    /\ inFlight \in {0, 1}
    /\ Len(requests) <= Len(MODELS)
    /\ requests = SubSeq(MODELS, 1, Len(requests))
    /\ Len(responses) + inFlight = Len(requests)
    /\ inFlight = 1 <=> pc = "post"

\* C10: whatever the candidates answer, each is requested at most once, in
\* list order and one at a time, so never more requests than candidates; and
\* when every candidate has failed the function returns the
\* all-models-failed placeholder.
C10_ExhaustionReturnsPlaceholder ==
    /\ inFlight \in {0, 1}
    /\ Len(requests) <= Len(MODELS)
    /\ requests = SubSeq(MODELS, 1, Len(requests))
    /\ Len(responses) + inFlight = Len(requests)
    /\ (Len(responses) = Len(MODELS) /\ \A i \in 1..Len(responses) : Failure(responses[i])) =>
          /\ uncaught = "none"
          /\ pc # "for_model" => html_analysis = ModelsKoHtml

====
